---- MODULE Spec2Model ----
(***************************************************************************)
(* A model of the easypay-gateway server (src/index.js): an Express app    *)
(* with a JSON body parser, one GET route that returns the publishable key *)
(* and one async POST route that creates a Stripe payment intent.          *)
(*                                                                         *)
(* A request is handled in the steps the event loop runs it in: the        *)
(* arrival (middleware, then the route handler up to its await), the       *)
(* settlement of the provider's promise (the provider's step), and the     *)
(* continuation of the handler after the await.                            *)
(***************************************************************************)
EXTENDS Integers, Sequences, FiniteSets, TLC

VARIABLES
  env,         \* the environment outside the process: the shell's, the .env file
  processEnv,  \* process.env: the process's own copy, filled when it starts
  stripe,      \* the provider client built at startup
  port,        \* the port the server listens on
  reqs,        \* reqs[r]: the request r, once it has arrived
  pc,          \* pc[r]: "idle", "awaiting", "settled" or "done"
  calls,       \* calls[r]: the provider calls made while handling r
  settled,     \* settled[r]: how the provider settled r's call, once it has
  out          \* out[r]: what handling r wrote: responses and stderr lines

vars == << env, processEnv, stripe, port, reqs, pc, calls, settled, out >>

(* Number of requests a behaviour holds; they may all be in flight at once. *)
MaxReq == 2

(* const port = process.env.PORT || 3000 *)
DefaultPort == 3000

(* amount: 1000 *)
Amount == 1000

Req == 1..MaxReq

(* The JavaScript value undefined (an environment variable that is unset). *)
Undefined == "undefined"

(***************************************************************************)
(* An environment: the three variables the program reads.                  *)
(***************************************************************************)
EnvValues ==
  [ STRIPE_SECRET_KEY      : {"sk_test_A", "sk_test_B"},
    STRIPE_PUBLISHABLE_KEY : {Undefined, "pk_test_A"},
    PORT                   : {Undefined, "8080"} ]

(* The environments the server is started in: which of the two secret keys *)
(* is the first one makes no difference.                                    *)
StartupEnvValues == { e \in EnvValues : e.STRIPE_SECRET_KEY = "sk_test_A" }

(* process.env.PORT || 3000 : an unset (or empty) PORT is falsy. *)
PortOf(e) ==
  IF e.PORT = Undefined \/ e.PORT = "" THEN ToString(DefaultPort) ELSE e.PORT

(* require('stripe')(process.env.STRIPE_SECRET_KEY): the client keeps the key. *)
StripeClient(e) == [ apiKey |-> e.STRIPE_SECRET_KEY ]

(***************************************************************************)
(* Requests.  A body is what is on the wire: its content type and its raw  *)
(* text, here by kind; value is what JSON.parse makes of a well-formed     *)
(* object.                                                                 *)
(***************************************************************************)
EmptyObj == [ f \in {} |-> Undefined ]

ClientFields == [ amount |-> 5, currency |-> "eur" ]

NoBody == [ ctype |-> "none", raw |-> "none", value |-> EmptyObj ]

PostBodies ==
  { [ ctype |-> "application/json", raw |-> "empty",     value |-> EmptyObj ],
    [ ctype |-> "application/json", raw |-> "object",    value |-> ClientFields ],
    [ ctype |-> "application/json", raw |-> "malformed", value |-> EmptyObj ],
    [ ctype |-> "application/json", raw |-> "primitive", value |-> EmptyObj ] }

GetRequest == [ method |-> "GET", path |-> "/stripe-public-key", body |-> NoBody ]

PostRequest(b) == [ method |-> "POST", path |-> "/create-payment-intent", body |-> b ]

NoRequest == [ method |-> "none", path |-> "none", body |-> NoBody ]

(* A parser that lets every body through to the routes. *)
JsonAccepts_AnyBody(b) == TRUE

(***************************************************************************)
(* app.use(express.json()): a request without a body, or whose content     *)
(* type is not JSON, passes untouched; an empty JSON body parses to {};    *)
(* in strict mode (the default) only an object or an array is accepted,    *)
(* and anything JSON.parse rejects is answered 400 before any route runs.  *)
(***************************************************************************)
JsonAccepts(b) ==
  \/ b.ctype # "application/json"
  \/ b.raw \in {"none", "empty", "object"}

(* req.body as the routes would see it. *)
ParsedBody(b) ==
  IF b.ctype = "application/json" /\ b.raw = "object" THEN b.value ELSE EmptyObj

(* app.use(express.static('public')): the demonstration frontend. *)
PublicFiles == {"/index.html"}

StaticServes(q) == q.method = "GET" /\ q.path \in PublicFiles

(* A handler that takes the amount and the currency from req.body. *)
IntentParams_FromBody(body) ==
  [ amount   |-> IF "amount" \in DOMAIN body THEN body.amount ELSE Amount,
    currency |-> IF "currency" \in DOMAIN body THEN body.currency ELSE "usd",
    payment_method_types |-> <<"card">> ]

(***************************************************************************)
(* What the provider is asked: the handler never reads req.body.           *)
(***************************************************************************)
IntentParams(body) ==
  [ amount |-> Amount, currency |-> "usd", payment_method_types |-> <<"card">> ]

(* A handler that builds the client from process.env on every call, and a *)
(* process.env that follows the environment outside.                       *)
ApiKeyForCall_ReadsEnv == env.STRIPE_SECRET_KEY

(* The key the provider call is made with: the client's, set at startup. *)
ApiKeyForCall == stripe.apiKey

(* A handler that submits the intent twice. *)
ProviderCalls_Twice(body) ==
  << [ op |-> "paymentIntents.create", params |-> IntentParams(body),
       apiKey |-> ApiKeyForCall ],
     [ op |-> "paymentIntents.create", params |-> IntentParams(body),
       apiKey |-> ApiKeyForCall ] >>

(***************************************************************************)
(* stripe.paymentIntents.create(...): one call, made with the client's key. *)
(***************************************************************************)
ProviderCalls(body) ==
  << [ op |-> "paymentIntents.create", params |-> IntentParams(body),
       apiKey |-> ApiKeyForCall ] >>

(***************************************************************************)
(* How the provider may settle the promise: resolved with a payment intent *)
(* or rejected with an error of some kind.                                 *)
(***************************************************************************)
Outcomes ==
  { [ kind |-> "resolved", value |-> [ client_secret |-> "pi_1_secret" ] ],
    [ kind |-> "resolved", value |-> [ client_secret |-> "pi_2_secret" ] ],
    [ kind |-> "rejected",
      value |-> [ type |-> "StripeCardError", message |-> "card declined" ] ],
    [ kind |-> "rejected",
      value |-> [ type |-> "StripeConnectionError", message |-> "network down" ] ] }

(***************************************************************************)
(* What a handler writes.  res.send / res.json of an object sends its JSON *)
(* text: JSON.stringify leaves out a field whose value is undefined.       *)
(***************************************************************************)
Http(status, body) == [ stream |-> "http", status |-> status, body |-> body ]

Stderr(err) == [ stream |-> "stderr", status |-> 0, body |-> err ]

JsonStringify(obj) ==
  [ f \in { k \in DOMAIN obj : obj[k] # Undefined } |-> obj[f] ]

(* A key route that answers 500 when the key is unset. *)
PublicKeyResponse_ErrorWhenUnset ==
  IF processEnv.STRIPE_PUBLISHABLE_KEY = Undefined
    THEN << Http(500, [ error |-> "STRIPE_PUBLISHABLE_KEY is not set" ]) >>
    ELSE << Http(200, [ publicKey |-> processEnv.STRIPE_PUBLISHABLE_KEY ]) >>

(* res.json({ publicKey: process.env.STRIPE_PUBLISHABLE_KEY }) *)
PublicKeyResponse ==
  << Http(200, JsonStringify([ publicKey |-> processEnv.STRIPE_PUBLISHABLE_KEY ])) >>

(* A try branch that sends the whole payment intent. *)
HandlerOutput_SendsIntent(o) ==
  IF o.kind = "resolved"
    THEN << Http(200, [ clientSecret |-> o.value.client_secret,
                        object |-> "payment_intent" ]) >>
    ELSE << Stderr(o.value), Http(500, [ error |-> o.value.message ]) >>

(* A catch branch that hides the provider's message. *)
HandlerOutput_GenericMessage(o) ==
  IF o.kind = "resolved"
    THEN << Http(200, [ clientSecret |-> o.value.client_secret ]) >>
    ELSE << Stderr(o.value), Http(500, [ error |-> "Internal Server Error" ]) >>

(* A catch branch that responds first and logs afterwards. *)
HandlerOutput_LogsAfter(o) ==
  IF o.kind = "resolved"
    THEN << Http(200, [ clientSecret |-> o.value.client_secret ]) >>
    ELSE << Http(500, [ error |-> o.value.message ]), Stderr(o.value) >>

(* A try branch that throws after res.send, so that the catch sends again. *)
HandlerOutput_RespondsTwice(o) ==
  IF o.kind = "resolved"
    THEN << Http(200, [ clientSecret |-> o.value.client_secret ]),
            Stderr([ type |-> "TypeError", message |-> "undefined" ]),
            Http(500, [ error |-> "undefined" ]) >>
    ELSE << Stderr(o.value), Http(500, [ error |-> o.value.message ]) >>

(* The handler after the await: the try branch or the catch branch. *)
HandlerOutput(o) ==
  IF o.kind = "resolved"
    THEN << Http(200, JsonStringify([ clientSecret |-> o.value.client_secret ])) >>
    ELSE << Stderr(o.value),
            Http(500, JsonStringify([ error |-> o.value.message ])) >>

(* The body parser's answer to a body it rejects: Express's error page, an *)
(* HTML text with no JSON field.  No route runs.                           *)
ParserRejection == << Http(400, EmptyObj) >>

(***************************************************************************)
(* The state after startup.                                                *)
(***************************************************************************)
Init ==
  /\ env \in StartupEnvValues
  /\ processEnv = env
  /\ stripe = StripeClient(processEnv)
  /\ port = PortOf(processEnv)
  /\ reqs = [ r \in Req |-> NoRequest ]
  /\ pc = [ r \in Req |-> "idle" ]
  /\ calls = [ r \in Req |-> << >> ]
  /\ settled = [ r \in Req |-> << >> ]
  /\ out = [ r \in Req |-> << >> ]

(* Requests are numbered in the order they arrive. *)
Arrives(r) == pc[r] = "idle" /\ \A q \in Req : q < r => pc[q] # "idle"

(* A server that finishes the requests one after the other. *)
CanContinue_Serialized(r) ==
  pc[r] = "settled" /\ \A q \in Req : q < r => pc[q] = "done"

(* The continuation runs once the awaited promise has settled. *)
CanContinue(r) == pc[r] = "settled"

(* GET /stripe-public-key *)
GetStripePublicKey(r) ==
  /\ Arrives(r)
  /\ JsonAccepts(GetRequest.body)
  /\ ~StaticServes(GetRequest)
  /\ reqs' = [ reqs EXCEPT ![r] = GetRequest ]
  /\ out' = [ out EXCEPT ![r] = PublicKeyResponse ]
  /\ pc' = [ pc EXCEPT ![r] = "done" ]
  /\ UNCHANGED << env, processEnv, stripe, port, calls, settled >>

(* POST /create-payment-intent with a body express.json() rejects *)
PostRejected(r) ==
  \E b \in PostBodies :
    /\ Arrives(r)
    /\ ~JsonAccepts(b)
    /\ reqs' = [ reqs EXCEPT ![r] = PostRequest(b) ]
    /\ out' = [ out EXCEPT ![r] = ParserRejection ]
    /\ pc' = [ pc EXCEPT ![r] = "done" ]
    /\ UNCHANGED << env, processEnv, stripe, port, calls, settled >>

(* POST /create-payment-intent: the handler up to its await *)
PostCreatePaymentIntent(r) ==
  \E b \in PostBodies :
    /\ Arrives(r)
    /\ JsonAccepts(b)
    /\ ~StaticServes(PostRequest(b))
    /\ reqs' = [ reqs EXCEPT ![r] = PostRequest(b) ]
    /\ calls' = [ calls EXCEPT ![r] = ProviderCalls(ParsedBody(b)) ]
    /\ pc' = [ pc EXCEPT ![r] = "awaiting" ]
    /\ UNCHANGED << env, processEnv, stripe, port, settled, out >>

(* The provider answers: the awaited promise resolves or rejects. *)
ProviderSettles(r) ==
  \E o \in Outcomes :
    /\ pc[r] = "awaiting"
    /\ settled' = [ settled EXCEPT ![r] = << o >> ]
    /\ pc' = [ pc EXCEPT ![r] = "settled" ]
    /\ UNCHANGED << env, processEnv, stripe, port, reqs, calls, out >>

(* POST /create-payment-intent: the handler after its await *)
PaymentIntentContinues(r) ==
  /\ CanContinue(r)
  /\ out' = [ out EXCEPT ![r] = out[r] \o HandlerOutput(settled[r][1]) ]
  /\ pc' = [ pc EXCEPT ![r] = "done" ]
  /\ UNCHANGED << env, processEnv, stripe, port, reqs, calls, settled >>

(***************************************************************************)
(* The environment outside changes (a variable is exported anew, the .env  *)
(* file is edited).  The running process keeps its copy: dotenv loads the  *)
(* file once, on line 1, and nothing in the program assigns to process.env. *)
(***************************************************************************)
EnvChange ==
  \E e \in EnvValues :
    /\ Cardinality({ k \in DOMAIN env : e[k] # env[k] }) = 1
    /\ env' = e
    /\ UNCHANGED << processEnv, stripe, port, reqs, pc, calls, settled, out >>

Next ==
  \/ \E r \in Req : GetStripePublicKey(r)
  \/ \E r \in Req : PostRejected(r)
  \/ \E r \in Req : PostCreatePaymentIntent(r)
  \/ \E r \in Req : ProviderSettles(r)
  \/ \E r \in Req : PaymentIntentContinues(r)
  \/ EnvChange

Spec == Init /\ [][Next]_vars

(* The event loop runs a continuation whose promise has settled. *)
FairSpec == Spec /\ \A r \in Req : WF_vars(PaymentIntentContinues(r))

(***************************************************************************)
(* Vocabulary of the properties below.                                     *)
(***************************************************************************)
IsGet(r) == reqs[r].method = "GET"

IsPost(r) == reqs[r].method = "POST"

(* The bodies the JSON parser lets through, and those it answers itself. *)
BodyPasses(r) ==
  reqs[r].body.ctype # "application/json" \/ reqs[r].body.raw \in {"empty", "object"}

PassedPost(r) == IsPost(r) /\ BodyPasses(r)

RefusedPost(r) == IsPost(r) /\ ~BodyPasses(r)

HttpOf(r) == SelectSeq(out[r], LAMBDA e : e.stream = "http")

StderrOf(r) == SelectSeq(out[r], LAMBDA e : e.stream = "stderr")

Response(status, body) == [ stream |-> "http", status |-> status, body |-> body ]

Resolved(r) == settled[r] # << >> /\ settled[r][1].kind = "resolved"

Rejected(r) == settled[r] # << >> /\ settled[r][1].kind = "rejected"

FixedParams ==
  [ amount |-> 1000, currency |-> "usd", payment_method_types |-> <<"card">> ]

(* The response the POST handler owes to an outcome of the provider call. *)
ResponseTo(o) ==
  IF o.kind = "resolved"
    THEN Response(200, [ clientSecret |-> o.value.client_secret ])
    ELSE Response(500, [ error |-> o.value.message ])

(***************************************************************************)
(* C1: a POST /create-payment-intent whose provider call resolved with     *)
(* client secret S is answered once, with status 200 and the body          *)
(* { clientSecret: S } and no other field.                                 *)
(***************************************************************************)
C1_SuccessResponse ==
  \A r \in Req :
    (pc[r] = "done" /\ Resolved(r)) =>
      HttpOf(r) = << Response(200, [ clientSecret |-> settled[r][1].value.client_secret ]) >>

C1_Witness ==
  \E r \in Req :
    /\ pc[r] = "done" /\ Resolved(r)
    /\ settled[r][1].value.client_secret = "pi_2_secret"
    /\ HttpOf(r)[1].status = 200

(***************************************************************************)
(* C2: a POST /create-payment-intent whose provider call was rejected with *)
(* an error of message M, of whatever kind, is answered with status 500    *)
(* and the body { error: M }; no response of a failed call has a           *)
(* clientSecret field.                                                     *)
(***************************************************************************)
C2_FailureResponse ==
  \A r \in Req :
    (pc[r] = "done" /\ Rejected(r)) =>
      /\ HttpOf(r) = << Response(500, [ error |-> settled[r][1].value.message ]) >>
      /\ \A i \in 1..Len(out[r]) : "clientSecret" \notin DOMAIN out[r][i].body

C2_Witness ==
  \E r, q \in Req :
    /\ pc[r] = "done" /\ Rejected(r) /\ settled[r][1].value.type = "StripeCardError"
    /\ pc[q] = "done" /\ Rejected(q) /\ settled[q][1].value.type = "StripeConnectionError"
    /\ HttpOf(r)[1].status = 500 /\ HttpOf(q)[1].status = 500

(***************************************************************************)
(* C3: every provider call carries amount 1000, currency "usd" and the     *)
(* payment-method list ["card"], whatever the request bodies held.         *)
(***************************************************************************)
C3_FixedParams ==
  \A r \in Req : \A i \in 1..Len(calls[r]) :
    /\ calls[r][i].op = "paymentIntents.create"
    /\ calls[r][i].params = FixedParams

C3_Witness ==
  \E r \in Req :
    /\ IsPost(r) /\ reqs[r].body.raw = "object"
    /\ reqs[r].body.value.amount = 5 /\ reqs[r].body.value.currency = "eur"
    /\ Len(calls[r]) = 1

(***************************************************************************)
(* C4, as claimed: whatever its body (empty, well-formed or malformed),    *)
(* every POST /create-payment-intent invokes the provider, is answered     *)
(* only with 200 or 500, and two POSTs that differ only in their body and  *)
(* whose calls have the same outcome get the same call and response.       *)
(***************************************************************************)
C4_AsClaimed ==
  /\ \A r \in Req : (IsPost(r) /\ pc[r] # "idle") => Len(calls[r]) = 1
  /\ \A r \in Req : \A i \in 1..Len(HttpOf(r)) :
       IsPost(r) => HttpOf(r)[i].status \in {200, 500}
  /\ \A r, q \in Req :
       (IsPost(r) /\ IsPost(q) /\ pc[r] = "done" /\ pc[q] = "done"
          /\ settled[r] = settled[q]) =>
         (calls[r] = calls[q] /\ out[r] = out[q])

(***************************************************************************)
(* C4, amended: the body of a POST /create-payment-intent that the JSON    *)
(* parser lets through (an empty body or a well-formed JSON object) is     *)
(* ignored: such requests all make the same single provider call, are      *)
(* answered only with 200 or 500, and get the same response when their     *)
(* calls have the same outcome.  A JSON body that is malformed or is not   *)
(* an object is answered 400 by the parser, and the provider is not        *)
(* invoked.                                                                *)
(***************************************************************************)
C4_BodyIgnoredOncePassed ==
  /\ \A r \in Req : (PassedPost(r) /\ pc[r] # "idle") =>
       /\ Len(calls[r]) = 1
       /\ calls[r][1].params = FixedParams
       /\ \A i \in 1..Len(HttpOf(r)) : HttpOf(r)[i].status \in {200, 500}
  /\ \A r, q \in Req :
       (PassedPost(r) /\ PassedPost(q)) =>
         /\ calls[r] = calls[q]
         /\ (pc[r] = "done" /\ pc[q] = "done" /\ settled[r] = settled[q]) => out[r] = out[q]
  /\ \A r \in Req : RefusedPost(r) =>
       /\ pc[r] = "done"
       /\ calls[r] = << >>
       /\ Len(HttpOf(r)) = 1 /\ HttpOf(r)[1].status = 400

C4_Witness ==
  \E r, q \in Req :
    /\ PassedPost(r) /\ reqs[r].body.raw = "object"
    /\ PassedPost(q) /\ reqs[q].body.raw = "empty"
    /\ pc[r] = "done" /\ pc[q] = "done" /\ settled[r] = settled[q]

(***************************************************************************)
(* C5, as claimed: every POST /create-payment-intent causes exactly one    *)
(* provider call.                                                          *)
(***************************************************************************)
C5_AsClaimed ==
  \A r \in Req : (IsPost(r) /\ pc[r] # "idle") => Len(calls[r]) = 1

(***************************************************************************)
(* C5, amended: every POST /create-payment-intent whose body the JSON      *)
(* parser lets through causes exactly one provider call, from its arrival  *)
(* on and whatever the outcome (a failed call is not retried); a POST the  *)
(* parser answers with 400 causes none.  The calls are not shared: when    *)
(* two calls resolve with distinct secrets, each request is answered with  *)
(* the secret of its own call, so the two responses differ.                *)
(***************************************************************************)
C5_OneCallPerPassedPost ==
  /\ \A r \in Req : (PassedPost(r) /\ pc[r] # "idle") => Len(calls[r]) = 1
  /\ \A r \in Req : (RefusedPost(r) \/ IsGet(r) \/ pc[r] = "idle") => calls[r] = << >>
  /\ \A r, q \in Req :
       (pc[r] = "done" /\ pc[q] = "done" /\ Resolved(r) /\ Resolved(q)
          /\ settled[r][1].value.client_secret # settled[q][1].value.client_secret) =>
         /\ HttpOf(r)[1].body.clientSecret = settled[r][1].value.client_secret
         /\ HttpOf(q)[1].body.clientSecret = settled[q][1].value.client_secret
         /\ HttpOf(r)[1].body.clientSecret # HttpOf(q)[1].body.clientSecret

C5_Witness ==
  \E r, q \in Req :
    /\ pc[r] = "done" /\ pc[q] = "done" /\ Resolved(r) /\ Resolved(q)
    /\ settled[r][1].value.client_secret # settled[q][1].value.client_secret

C7_Independent ==
  /\ \A r \in Req : Arrives(r) =>
       ENABLED GetStripePublicKey(r) /\ ENABLED PostCreatePaymentIntent(r)
  /\ \A r \in Req : pc[r] = "awaiting" => ENABLED ProviderSettles(r)
  /\ \A r \in Req : pc[r] = "settled" => ENABLED PaymentIntentContinues(r)
  /\ \A r \in Req : (PassedPost(r) /\ pc[r] = "done") =>
       HttpOf(r) = << ResponseTo(settled[r][1]) >>
  /\ \A r \in Req : (PassedPost(r) /\ pc[r] # "done") => HttpOf(r) = << >>

C7_Witness ==
  /\ PassedPost(1) /\ pc[1] = "awaiting"
  /\ PassedPost(2) /\ pc[2] = "done"
  /\ HttpOf(2) = << ResponseTo(settled[2][1]) >>

(***************************************************************************)
(* C8: the configuration is read once, at startup: the publishable key of  *)
(* every GET /stripe-public-key, the secret key of every provider call and *)
(* the port are those the environment had when the process started, also   *)
(* after the environment has changed.                                      *)
(***************************************************************************)
C8_Held ==
  /\ \A r \in Req : \A i \in 1..Len(calls[r]) :
       calls[r][i].apiKey = processEnv.STRIPE_SECRET_KEY
  /\ stripe.apiKey = processEnv.STRIPE_SECRET_KEY
  /\ port = (IF processEnv.PORT = Undefined THEN "3000" ELSE processEnv.PORT)
  /\ \A r \in Req : (IsGet(r) /\ pc[r] = "done") =>
       \/ /\ processEnv.STRIPE_PUBLISHABLE_KEY = Undefined
          /\ DOMAIN HttpOf(r)[1].body = {}
       \/ /\ processEnv.STRIPE_PUBLISHABLE_KEY # Undefined
          /\ HttpOf(r)[1].body = [ publicKey |-> processEnv.STRIPE_PUBLISHABLE_KEY ]

C10_AsClaimed ==
  \A r \in Req : (IsPost(r) /\ HttpOf(r) # << >>) => settled[r] # << >>

(***************************************************************************)
(* C10, amended: every POST /create-payment-intent gets at most one        *)
(* response.  For a POST whose body the JSON parser lets through, the      *)
(* response comes from the handler and only after the provider call has    *)
(* completed, never both a success and an error; as long as the call has   *)
(* not completed there is no response; and once the call has succeeded or  *)
(* failed the request eventually has exactly one response.  A POST the     *)
(* parser refuses gets its one response, 400, without a provider call.     *)
(***************************************************************************)
C10_Safety ==
  \A r \in Req :
    /\ IsPost(r) => Len(HttpOf(r)) <= 1
    /\ (PassedPost(r) /\ HttpOf(r) # << >>) => (settled[r] # << >> /\ pc[r] = "done")
    /\ (PassedPost(r) /\ settled[r] = << >>) => out[r] = << >>
    /\ RefusedPost(r) =>
         (Len(HttpOf(r)) = 1 /\ HttpOf(r)[1].status = 400 /\ settled[r] = << >>)

(* What a request has been answered is never changed or added to. *)
C10_Kept ==
  \A r \in Req : HttpOf(r) # << >> => (out'[r] = out[r] /\ settled'[r] = settled[r])

(* Answers are kept, so "again and again, every settled call has been     *)
(* answered once" is "every settled call is eventually answered once".    *)
C10_OneResponseAfterCall ==
  /\ []C10_Safety
  /\ [][C10_Kept]_vars
  /\ []<>(\A r \in Req :
            settled[r] # << >> => (pc[r] = "done" /\ Len(HttpOf(r)) = 1))

C10_Witness ==
  /\ PassedPost(1) /\ pc[1] = "awaiting" /\ out[1] = << >>
  /\ PassedPost(2) /\ pc[2] = "done" /\ settled[2] # << >> /\ Len(HttpOf(2)) = 1

====
